---- MODULE Spec2Model ----
(***************************************************************************)
(* A model of app/routes/admin/create-trip.tsx: the CreateTrip page, its   *)
(* loader, its form state, the handleSubmit handler with its three await   *)
(* points, and the country combo box's filtering callback.                 *)
(*                                                                         *)
(* Text the code inspects character by character (country names, values    *)
(* and filter queries) is a sequence of characters, <<>> being "".  Text   *)
(* the code only tests for emptiness, copies or logs (the other form       *)
(* fields, ids, messages) is a TLA+ string.                                *)
(***************************************************************************)
EXTENDS Integers, Sequences, FiniteSets, TLC

VARIABLES
    apiCountries,   \* the body returned by GET restcountries.com/v3.1/all
    countries,      \* useLoaderData(): what loader() made of it
    typed,          \* the last filtering event of the country combo box
    dropdown,       \* the list last handed to the country combo box
    formData,       \* useState<TripFormData>
    loading,        \* useState(false)
    error,          \* useState<string | null>(null)
    calls,          \* the handleSubmit invocations suspended at an await
    requests,       \* the POSTs to /api/create-trip that are in flight
    navigations,    \* the paths given to navigate(), oldest first
    console,        \* the messages given to console.error, oldest first
    submits         \* how many submit events have fired

vars ==
    <<apiCountries, countries, typed, dropdown, formData, loading, error, calls,
      requests, navigations, console, submits>>

(***************************************************************************)
(* Bounds of the model.                                                    *)
(***************************************************************************)
MaxSubmits == 3

MaxCountries == 3

MaxQueryLen == 2

(***************************************************************************)
(* Strings.                                                                *)
(***************************************************************************)
\* String.prototype.toLowerCase on one character.  "I." stands for U+0130,
\* whose lower case is two characters long; a flag has no lower case.
toLowerCaseChar(c) ==
    CASE c = "A" -> <<"a">>
      [] c = "P" -> <<"p">>
      [] c = "I." -> <<"i", ".">>
      [] OTHER -> <<c>>

RECURSIVE toLowerCase(_)
toLowerCase(s) ==
    IF s = <<>> THEN <<>>
    ELSE toLowerCaseChar(Head(s)) \o toLowerCase(Tail(s))

\* String.prototype.includes: q occurs in s at some position.
includes(s, q) ==
    \E k \in 0..(Len(s) - Len(q)) : SubSeq(s, k + 1, k + Len(q)) = q

(***************************************************************************)
(* The loader and the country combo box.                                   *)
(***************************************************************************)
\* One record of the API's answer becomes a Country.  The coordinates and
\* the map link feed the map preview only and are left out.
loaderCountry(country) ==
    [name |-> country.flag \o <<" ">> \o country.common,
     value |-> country.common]

loader(data) ==
    [i \in 1..Len(data) |-> loaderCountry(data[i])]

comboItem(c) ==
    [text |-> c.name, value |-> c.value]

countryData ==
    [i \in 1..Len(countries) |-> comboItem(countries[i])]

\* String(e.text ?? "").toLowerCase()
filterQuery(e) ==
    toLowerCase(IF e.hasText THEN e.text ELSE <<>>)

matchesCaseSensitive(c, query) ==
    includes(c.name, query)

\* The predicate given to countries.filter.
matches(c, query) ==
    includes(toLowerCase(c.name), query)

\* Array.prototype.filter followed by Array.prototype.map.
RECURSIVE filterMap(_, _)
filterMap(cs, query) ==
    IF cs = <<>> THEN <<>>
    ELSE IF matches(Head(cs), query)
         THEN <<comboItem(Head(cs))>> \o filterMap(Tail(cs), query)
         ELSE filterMap(Tail(cs), query)

\* filtering={(e) => e.updateData(countries.filter(...).map(...))}
filtering(e) ==
    /\ typed' = e
    /\ dropdown' = filterMap(countries, filterQuery(e))
    /\ UNCHANGED <<apiCountries, countries, formData, loading, error, calls,
                   requests, navigations, console, submits>>

(***************************************************************************)
(* The form state.                                                         *)
(***************************************************************************)
\* The keys the select combo boxes are rendered for, and one item of each
\* list.  Both come from ~/constants; the combo boxes also accept typed text.
selectItems ==
    {"travelStyle", "interest", "budget", "groupType"}

comboBoxItems(key) ==
    CASE key = "travelStyle" -> {"Relaxed"}
      [] key = "interest" -> {"Food"}
      [] key = "budget" -> {"Luxury"}
      [] key = "groupType" -> {"Couple"}

\* useState<TripFormData>({country: countries[0]?.value || "", ...})
initialFormData(cs) ==
    [country |-> IF Len(cs) > 0 /\ cs[1].value # <<>> THEN cs[1].value ELSE <<>>,
     travelStyle |-> "",
     interest |-> "",
     budget |-> "",
     duration |-> 0,
     groupType |-> ""]

NoError == "null"

MissingFieldsMsg == "Please provide input for all fields"

DurationRangeMsg == "Duration must be between 1 and 10 days"

NotAuthenticatedMsg == "User not authenticated"

FailedMsg == "Failed to generate itinerary"

ErrorGeneratingMsg == "Error generating itinerary:"

\* setFormData((s) => ({ ...s, [key]: value }))
handleChange(key, value) ==
    /\ formData' = [formData EXCEPT ![key] = value]
    /\ UNCHANGED <<apiCountries, countries, typed, dropdown, loading, error, calls,
                   requests, navigations, console, submits>>

\* The country combo box's change callback: if (e.value) handleChange(...).
\* e.value is an item of the list shown, typed text, or null once cleared
\* (<<>> here, which the test treats alike).
countryChange(value) ==
    IF value # <<>> THEN handleChange("country", value) ELSE UNCHANGED vars

\* A select combo box's change callback.
selectChange(key, value) ==
    IF value # "" THEN handleChange(key, value) ELSE UNCHANGED vars

\* The duration input's onChange: handleChange("duration", Number(value)).
\* The min and max attributes do not stop a number from being typed.
durationChange(n) ==
    handleChange("duration", n)

(***************************************************************************)
(* handleSubmit.                                                           *)
(***************************************************************************)
\* A promise the handler awaits, and the values it can be fulfilled with:
\* an object with an optional id ($id for a user), or null.
Undefined == [isNull |-> TRUE, hasId |-> FALSE, id |-> ""]

Object(id) == [isNull |-> FALSE, hasId |-> TRUE, id |-> id]

ObjectWithoutId == [isNull |-> FALSE, hasId |-> FALSE, id |-> ""]

Pending == [status |-> "pending", value |-> Undefined]

Rejected == [status |-> "rejected", value |-> Undefined]

Fulfilled(v) == [status |-> "fulfilled", value |-> v]

\* What account.get() can resolve with.
Users == {Object("u1"), Object("u2"), Object(""), ObjectWithoutId}

\* What resp.json() can resolve with.
Results == {Object("t1"), Object("t2"), Object(""), ObjectWithoutId, Undefined}

missingRequiredButGroupType(fd) ==
    \/ fd.country = <<>>
    \/ fd.travelStyle = ""
    \/ fd.interest = ""
    \/ fd.budget = ""

\* !formData.country || !formData.travelStyle || ... || !formData.groupType
missingRequired(fd) ==
    \/ fd.country = <<>>
    \/ fd.travelStyle = ""
    \/ fd.interest = ""
    \/ fd.budget = ""
    \/ fd.groupType = ""

durationNegativeOrAboveMax(fd) ==
    fd.duration < 0 \/ fd.duration > 10

\* formData.duration < 1 || formData.duration > 10
durationOutOfRange(fd) ==
    fd.duration < 1 \/ fd.duration > 10

submitAlwaysEnabled == TRUE

\* <ButtonComponent type="submit" disabled={loading}>: a disabled submit
\* button takes no click, and a form whose default button is disabled is
\* not submitted by the Enter key either.
submitEnabled == ~loading

hasUserObject(user) == ~user.isNull

\* !user.$id is false
authenticated(user) ==
    ~user.isNull /\ user.hasId /\ user.id # ""

hasIdField(result) ==
    ~result.isNull /\ result.hasId

\* result?.id is truthy
hasId(result) ==
    ~result.isNull /\ result.hasId /\ result.id # ""

tripDetailPathOutsideAdmin(id) == "/trip-detail/" \o id

\* `/admin/trip-detail/${result.id}`
tripDetailPath(id) == "/admin/trip-detail/" \o id

requestBodyOfCurrentState(fd, userId) ==
    [country |-> formData.country,
     numberOfDays |-> formData.duration,
     travelStyle |-> formData.travelStyle,
     interests |-> formData.interest,
     budget |-> formData.budget,
     groupType |-> formData.groupType,
     userId |-> userId]

\* JSON.stringify({country: formData.country, ...}): the keys and values of
\* the text it makes; fd is the formData the handler closed over.
requestBody(fd, userId) ==
    [country |-> fd.country,
     numberOfDays |-> fd.duration,
     travelStyle |-> fd.travelStyle,
     interests |-> fd.interest,
     budget |-> fd.budget,
     groupType |-> fd.groupType,
     userId |-> userId]

\* The submit event: the handler runs to its first await.  setLoading(true)
\* and a setLoading(false) before the return are one batched update.  The
\* event fires on any form state; a browser that enforces min and max
\* itself offers fewer of them.
handleSubmit ==
    /\ submitEnabled
    /\ submits < MaxSubmits
    /\ submits' = submits + 1
    /\ IF missingRequired(formData)
         THEN /\ error' = MissingFieldsMsg
              /\ loading' = FALSE
              /\ UNCHANGED calls
         ELSE IF durationOutOfRange(formData)
         THEN /\ error' = DurationRangeMsg
              /\ loading' = FALSE
              /\ UNCHANGED calls
         ELSE /\ loading' = TRUE
              /\ calls' = calls \cup
                    {[id |-> submits + 1, pc |-> "account.get",
                      formData |-> formData, userId |-> "",
                      awaited |-> Pending]}
              /\ UNCHANGED error
    /\ UNCHANGED <<apiCountries, countries, typed, dropdown, formData, requests,
                   navigations, console>>

\* The promise call c awaits settles.
settle(c, outcome) ==
    /\ c.awaited = Pending
    /\ calls' = (calls \ {c}) \cup {[c EXCEPT !.awaited = outcome]}

\* account.get() answers or fails.
accountGetSettles(c, outcome) ==
    /\ c.pc = "account.get"
    /\ settle(c, outcome)
    /\ UNCHANGED <<apiCountries, countries, typed, dropdown, formData, loading, error,
                   requests, navigations, console, submits>>

\* The handler resumes after await account.get().  The await is outside the
\* try block: a rejection ends the handler with nothing caught.
resumeAfterAccountGet(c) ==
    /\ c.pc = "account.get"
    /\ c.awaited # Pending
    /\ IF c.awaited = Rejected
         THEN /\ calls' = calls \ {c}
              /\ UNCHANGED <<loading, requests, console>>
         ELSE IF ~authenticated(c.awaited.value)
         THEN /\ console' = Append(console, NotAuthenticatedMsg)
              /\ loading' = FALSE
              /\ calls' = calls \ {c}
              /\ UNCHANGED requests
         ELSE /\ requests' = requests \cup
                    {[call |-> c.id, method |-> "POST", url |-> "/api/create-trip",
                      body |-> requestBody(c.formData, c.awaited.value.id)]}
              /\ calls' = (calls \ {c}) \cup
                    {[c EXCEPT !.pc = "fetch", !.awaited = Pending,
                               !.userId = c.awaited.value.id]}
              /\ UNCHANGED <<loading, console>>
    /\ UNCHANGED <<apiCountries, countries, typed, dropdown, formData, error,
                   navigations, submits>>

\* The POST is answered (whatever the status) or fails.
fetchSettles(c, outcome) ==
    /\ c.pc = "fetch"
    /\ settle(c, outcome)
    /\ requests' = {r \in requests : r.call # c.id}
    /\ UNCHANGED <<apiCountries, countries, typed, dropdown, formData, loading, error,
                   navigations, console, submits>>

\* catch (err) { console.error(...) } finally { setLoading(false) }
catchAndFinally(c) ==
    /\ console' = Append(console, ErrorGeneratingMsg)
    /\ loading' = FALSE
    /\ calls' = calls \ {c}
    /\ UNCHANGED navigations

\* The handler resumes after await fetch(...).
resumeAfterFetch(c) ==
    /\ c.pc = "fetch"
    /\ c.awaited # Pending
    /\ IF c.awaited = Rejected
         THEN catchAndFinally(c)
         ELSE /\ calls' = (calls \ {c}) \cup
                    {[c EXCEPT !.pc = "resp.json", !.awaited = Pending]}
              /\ UNCHANGED <<loading, console, navigations>>
    /\ UNCHANGED <<apiCountries, countries, typed, dropdown, formData, error,
                   requests, submits>>

\* resp.json() yields the parsed body or fails.
jsonSettles(c, outcome) ==
    /\ c.pc = "resp.json"
    /\ settle(c, outcome)
    /\ UNCHANGED <<apiCountries, countries, typed, dropdown, formData, loading, error,
                   requests, navigations, console, submits>>

\* The handler resumes after await resp.json().
resumeAfterJson(c) ==
    /\ c.pc = "resp.json"
    /\ c.awaited # Pending
    /\ IF c.awaited = Rejected
         THEN catchAndFinally(c)
         ELSE /\ IF hasId(c.awaited.value)
                   THEN /\ navigations' =
                              Append(navigations, tripDetailPath(c.awaited.value.id))
                        /\ UNCHANGED console
                   ELSE /\ console' = Append(console, FailedMsg)
                        /\ UNCHANGED navigations
              /\ loading' = FALSE
              /\ calls' = calls \ {c}
    /\ UNCHANGED <<apiCountries, countries, typed, dropdown, formData, error,
                   requests, submits>>

(***************************************************************************)
(* The inputs.                                                             *)
(***************************************************************************)
ApiRecords ==
    {[flag |-> <<"[PA]">>, common |-> <<"P", "a">>],
     [flag |-> <<"[AP]">>, common |-> <<"A", "p">>],
     [flag |-> <<"[IA]">>, common |-> <<"I.", "a">>],
     [flag |-> <<"[A]">>, common |-> <<"a">>]}

QueryChars == {"a", "P", " ", "."}

RECURSIVE SeqsUpTo(_, _)
SeqsUpTo(S, n) ==
    IF n = 0 THEN {<<>>}
    ELSE LET shorter == SeqsUpTo(S, n - 1)
         IN  shorter \cup {Append(s, x) : s \in shorter, x \in S}

\* A filtering event whose text is null or undefined; also what the combo
\* box holds before anything is typed, when it shows its whole dataSource.
NoFilterEvent == [hasText |-> FALSE, text |-> <<>>]

\* The filtering events: the text typed, or no text at all.
FilterEvents ==
    {[hasText |-> TRUE, text |-> q] : q \in SeqsUpTo(QueryChars, MaxQueryLen)}
        \cup {NoFilterEvent}

\* The country lists the page is exercised with.
PageData ==
    {<<>>,
     <<[flag |-> <<"[PA]">>, common |-> <<"P", "a">>],
       [flag |-> <<"[AP]">>, common |-> <<"A", "p">>]>>}

TypedCountry == <<"a">>

DurationInputs == {-1, 0, 1, 10, 11}

\* What the country combo box can report: an item shown, typed text, null.
CountryInputs ==
    {dropdown[i].value : i \in 1..Len(dropdown)} \cup {TypedCountry, <<>>}

(***************************************************************************)
(* The page.                                                               *)
(***************************************************************************)
Mounted(data) ==
    /\ apiCountries = data
    /\ countries = loader(data)
    /\ typed = NoFilterEvent
    /\ dropdown = countryData
    /\ formData = initialFormData(countries)
    /\ loading = FALSE
    /\ error = NoError
    /\ calls = {}
    /\ requests = {}
    /\ navigations = <<>>
    /\ console = <<>>
    /\ submits = 0

Init == \E data \in PageData : Mounted(data)

Next ==
    \/ \E v \in CountryInputs : countryChange(v)
    \/ \E n \in DurationInputs : durationChange(n)
    \/ \E key \in selectItems : \E v \in comboBoxItems(key) \cup {""} :
          selectChange(key, v)
    \/ handleSubmit
    \/ \E c \in calls : \E u \in Users :
          accountGetSettles(c, Fulfilled(u))
    \/ \E c \in calls : accountGetSettles(c, Rejected)
    \/ \E c \in calls : resumeAfterAccountGet(c)
    \/ \E c \in calls : fetchSettles(c, Fulfilled(ObjectWithoutId))
    \/ \E c \in calls : fetchSettles(c, Rejected)
    \/ \E c \in calls : resumeAfterFetch(c)
    \/ \E c \in calls : \E r \in Results : jsonSettles(c, Fulfilled(r))
    \/ \E c \in calls : jsonSettles(c, Rejected)
    \/ \E c \in calls : resumeAfterJson(c)

Spec == Init /\ [][Next]_vars

\* The filter on its own: every country list up to MaxCountries long, and
\* every filtering event.
FilterInit == \E data \in SeqsUpTo(ApiRecords, MaxCountries) : Mounted(data)

FilterNext == \E e \in FilterEvents : filtering(e)

FilterSpec == FilterInit /\ [][FilterNext]_vars

(***************************************************************************)
(* The properties.  Each is stated from the form, the promises and the     *)
(* outputs, not from the operators handleSubmit is built of.               *)
(***************************************************************************)
\* A submit event fires in this step.
SubmitFires == submits' = submits + 1

\* Call c runs on from its await in this step: to its end or its next await.
Resumes(c) == c \in calls /\ c.awaited # Pending /\ c \notin calls'

\* Call c is still suspended after this step.
Continues(c) == \E d \in calls' : d.id = c.id

RequiredFieldEmpty(fd) ==
    \/ fd.country = <<>>
    \/ \E key \in {"travelStyle", "interest", "budget", "groupType"} : fd[key] = ""

NonEmptyId(v) == ~v.isNull /\ v.hasId /\ v.id # ""

Logged(msg) == \E i \in 1..Len(console) : console[i] = msg

\* C1: a submit event on a form with country, travelStyle, interest, budget
\* or groupType empty sets the error to the missing-fields message and
\* starts no auth lookup and no POST, whatever the duration is.
C1_MissingFieldRejected ==
    [][(SubmitFires /\ RequiredFieldEmpty(formData)) =>
          /\ error' = MissingFieldsMsg
          /\ loading' = FALSE
          /\ calls' = calls
          /\ requests' = requests]_vars

C1_Witness ==
    /\ submits > 0
    /\ error = MissingFieldsMsg
    /\ formData.groupType = ""
    /\ formData.country # <<>>
    /\ formData.duration \in 1..10
    /\ calls = {}
    /\ requests = {}

\* C2: a submit event on a form whose duration is below 1 or above 10 sets
\* a validation error and starts no auth lookup and no POST; with the five
\* text fields filled the error is the duration-range message.
C2_DurationRejected ==
    [][(SubmitFires /\ (formData.duration < 1 \/ formData.duration > 10)) =>
          /\ error' \in {MissingFieldsMsg, DurationRangeMsg}
          /\ (~RequiredFieldEmpty(formData) => error' = DurationRangeMsg)
          /\ loading' = FALSE
          /\ calls' = calls
          /\ requests' = requests]_vars

C2_Witness ==
    /\ submits > 0
    /\ error = DurationRangeMsg
    /\ formData.duration = 0
    /\ ~RequiredFieldEmpty(formData)
    /\ calls = {}
    /\ requests = {}

\* C3: at most one handleSubmit invocation has passed validation and not
\* finished, and loading is true while there is one.
C3_OneInFlight ==
    /\ Cardinality(calls) <= 1
    /\ (calls # {} => loading)

C3_Witness ==
    /\ submits < MaxSubmits
    /\ loading
    /\ \E c \in calls : c.pc = "fetch" /\ c.awaited = Pending
    /\ ~missingRequired(formData)
    /\ ~durationOutOfRange(formData)

\* C4: when resp.json() has resolved with a non-empty id, the handler
\* navigates once, to /admin/trip-detail/ followed by that id; nothing else
\* navigates.
C4_NavigatesToTrip ==
    [][/\ \A c \in calls :
             (/\ c.pc = "resp.json"
              /\ c.awaited.status = "fulfilled"
              /\ NonEmptyId(c.awaited.value)
              /\ Resumes(c)) =>
                navigations' =
                    Append(navigations, "/admin/trip-detail/" \o c.awaited.value.id)
       /\ navigations' # navigations =>
             \E c \in calls :
                /\ c.pc = "resp.json"
                /\ c.awaited.status = "fulfilled"
                /\ NonEmptyId(c.awaited.value)
                /\ c.userId # ""
                /\ Resumes(c)]_vars

C4_Witness ==
    /\ navigations = <<"/admin/trip-detail/t2">>
    /\ calls = {}
    /\ ~loading

\* C5: when resp.json() has resolved with a body whose id is absent or
\* empty, the handler logs the failure and nothing else: no navigation, the
\* form data and the error stay as they are.
C5_NoIdOnlyLogs ==
    [][\A c \in calls :
          (/\ c.pc = "resp.json"
           /\ c.awaited.status = "fulfilled"
           /\ ~NonEmptyId(c.awaited.value)
           /\ Resumes(c)) =>
             /\ console' = Append(console, FailedMsg)
             /\ navigations' = navigations
             /\ formData' = formData
             /\ error' = error]_vars

C5_Witness ==
    /\ Logged(FailedMsg)
    /\ navigations = <<>>
    /\ calls = {}

\* C6: when account.get() has resolved with a user without an id, the
\* handler logs an error and ends: no POST, no navigation.  A POST is sent
\* only by a handler whose account.get() resolved with a non-empty id, and
\* carries that id.
C6_AuthRequired ==
    [][/\ \A c \in calls :
             (/\ c.pc = "account.get"
              /\ c.awaited.status = "fulfilled"
              /\ ~NonEmptyId(c.awaited.value)
              /\ Resumes(c)) =>
                /\ console' = Append(console, NotAuthenticatedMsg)
                /\ ~Continues(c)
                /\ requests' = requests
                /\ navigations' = navigations
       /\ \A r \in requests' \ requests :
             \E c \in calls :
                /\ c.id = r.call
                /\ c.pc = "account.get"
                /\ c.awaited.status = "fulfilled"
                /\ NonEmptyId(c.awaited.value)
                /\ r.body.userId = c.awaited.value.id]_vars

C6_Witness ==
    /\ Logged(NotAuthenticatedMsg)
    /\ requests = {}
    /\ navigations = <<>>
    /\ calls = {}

\* C7: when a promise the handler awaits is rejected (account.get(), the
\* POST, or resp.json()), the handler logs to the console, and neither
\* changes the error nor navigates.
C7_FailuresLogged ==
    [][\A c \in calls :
          (c.awaited.status = "rejected" /\ Resumes(c)) =>
             /\ Len(console') = Len(console) + 1
             /\ error' = error
             /\ navigations' = navigations]_vars

\* The display name of a country of the API: its flag, a space, its name.
DisplayName(country) == country.flag \o <<" ">> \o country.common

\* q occurs in s.
IsSubstring(q, s) ==
    \E i \in 1..(Len(s) + 1) : \E j \in (i - 1)..Len(s) : SubSeq(s, i, j) = q

\* C8: the list the combo box shows after a filtering event holds exactly
\* the countries whose flag-and-name, lower-cased, contains the lower-cased
\* text, in the order of the country list, each as {text: name, value:
\* value}; with no text it is the whole list.
C8_FilterExact ==
    LET q == toLowerCase(IF typed.hasText THEN typed.text ELSE <<>>)
        hits == {i \in 1..Len(apiCountries) :
                    IsSubstring(q, toLowerCase(DisplayName(apiCountries[i])))}
        shown == 1..Len(dropdown)
    IN  /\ Len(dropdown) = Cardinality(hits)
        /\ \E f \in [shown -> hits] :
              /\ \A a, b \in shown : a < b => f[a] < f[b]
              /\ \A k \in shown :
                    dropdown[k] = [text |-> DisplayName(apiCountries[f[k]]),
                                   value |-> apiCountries[f[k]].common]
        /\ (q = <<>> => Len(dropdown) = Len(apiCountries))

C8_Witness ==
    /\ typed = [hasText |-> TRUE, text |-> <<"P">>]
    /\ Len(countries) = 3
    /\ Len(dropdown) = 2
    /\ dropdown[1].value = <<"A", "p">>
    /\ dropdown[2].value = <<"P", "a">>

\* C9: every POST body has exactly the seven keys; userId is the id the
\* auth lookup returned and the other six are the form's fields as they
\* were when the submit event fired, whatever the form holds since; so the
\* five text fields are non-empty and numberOfDays is within 1..10.
C9_BodyFromSubmitTime ==
    [][/\ \A c \in calls' \ calls :
             c.pc = "account.get" /\ c.awaited = Pending => c.formData = formData
       /\ \A c \in calls : \A d \in calls' :
             d.id = c.id => d.formData = c.formData
       /\ \A r \in requests' :
             /\ r.url = "/api/create-trip"
             /\ DOMAIN r.body =
                   {"country", "numberOfDays", "travelStyle", "interests",
                    "budget", "groupType", "userId"}
             /\ \E c \in calls' :
                   /\ c.id = r.call
                   /\ r.body.userId = c.userId
                   /\ r.body.country = c.formData.country
                   /\ r.body.numberOfDays = c.formData.duration
                   /\ r.body.travelStyle = c.formData.travelStyle
                   /\ r.body.interests = c.formData.interest
                   /\ r.body.budget = c.formData.budget
                   /\ r.body.groupType = c.formData.groupType
             /\ r.body.country # <<>>
             /\ r.body.travelStyle # ""
             /\ r.body.interests # ""
             /\ r.body.budget # ""
             /\ r.body.groupType # ""
             /\ r.body.userId # ""
             /\ r.body.numberOfDays \in 1..10]_vars

C9_Witness ==
    \E r \in requests :
        /\ r.body.country # formData.country
        /\ r.body.numberOfDays # formData.duration
        /\ r.body.userId = "u2"

\* C10: once every submission has finished, on whatever path, loading is
\* false again, so the submit control is enabled.
C10_LoadingReset ==
    calls = {} => ~loading

====
